---- MODULE Spec2Model ----
(***************************************************************************)
(* Model of the resilience layer of lib/validation_enhanced.c: the         *)
(* configuration, the connection pool, the response cache, the metrics log *)
(* and curl_validation_enhanced with its retry loop.                       *)
(*                                                                         *)
(* Two specifications are defined.  Spec is the program as a client drives *)
(* it through its public functions, started from the statically            *)
(* initialised globals.  SpecCache drives the two cache functions          *)
(* get_cached_response / cache_response directly, from a table that        *)
(* earlier stores have filled, to settle the contract of the cache alone.  *)
(***************************************************************************)
EXTENDS Integers, Sequences, FiniteSets, TLC

VARIABLES
    config,         \* global_config (the fields the layer's control flow reads)
    connections,    \* connection_pool.connections[0 .. pool_size-1]
    current_index,  \* connection_pool.current_index
    next_handle,    \* number of handles curl_easy_init has produced so far
    cleaned,        \* per handle: how many times curl_easy_cleanup was given it
    hinfo,          \* per handle: CURLINFO_RESPONSE_CODE of its last transfer
    cache_head,     \* the cache list, head first
    metrics_buffer, \* metrics_buffer[0 .. metrics_count-1]
    now,            \* time(NULL), in seconds
    pc,             \* position of the (single) client thread
    call,           \* locals of the running / last returned call (its ordinal n
                    \* among the API calls), plus observations of what it did
    ncalls,         \* number of operations started so far (bounds the run)
    lclock,         \* observation: logical clock of cache uses (stores and hits)
    op,             \* observation: the last cache operation and what it returned
    held,           \* per request of SpecPool: the handle it has borrowed
    released,       \* observation: number of return_connection_to_pool calls
    snapshot,       \* observation: what the last validation_get_metrics gave
    cfgarg,         \* observation: the argument of the last validation_set_config
    thread          \* per request of the race specifications: its position in
                    \* the function it runs, and that function's locals

vars == <<config, connections, current_index, next_handle, cleaned, hinfo,
          cache_head, metrics_buffer, now, pc, call, ncalls, lclock, op,
          held, released, snapshot, cfgarg, thread>>

----------------------------------------------------------------------------
(* Bounds of the model *)

MaxRetries == 4      \* max_retries ranges over 0 .. MaxRetries
MaxCalls == 2        \* API calls per behaviour of Spec
MaxOps == 4          \* cache operations per behaviour of SpecCache
MaxHandles == 3      \* handles curl_easy_init can produce before it fails
TickStep == 150      \* seconds by which the clock advances between steps
MaxNow == 450        \* the clock stops advancing by ticks beyond this
PreFill == 99        \* entries earlier stores left in the table (SpecCache)
NumThreads == 2      \* requests in flight at once (SpecPool)
MaxRounds == 12      \* connections taken per behaviour of SpecPool
MaxRecords == 4      \* record_metrics calls per behaviour of SpecMetrics
PreFillMetrics == 999 \* metrics earlier calls left in the log (SpecMetrics)
MaxBackoffRetries == 24 \* max_retries ranges over 0 .. this in SpecBackoff

(* Program constants *)

CACHE_TTL == 300
CACHE_MAX == 100
MAX_METRICS == 1000
MAX_CONNECTIONS == 10
KEY_BUF == 256
BACKOFF_START_MS == 1000

CURLE_OK == 0
CURLE_COULDNT_CONNECT == 7
CURLE_OUT_OF_MEMORY == 27
CURLE_OPERATION_TIMEDOUT == 28
CURLE_SSL_CONNECT_ERROR == 35
CURLE_BAD_FUNCTION_ARGUMENT == 43

NoHandle == 0

----------------------------------------------------------------------------
(* Inputs *)

\* The (endpoint, payload) pairs the client asks about.
Requests ==
    { <<<<"a">>, <<"c">>>>,
      <<<<"a", ":", "b">>, <<"c">>>>,
      <<<<"a">>, <<"b", ":", "c">>>> }

\* A NULL pointer passed for a string or a handle, and the caller's handle.
NullPtr == <<"(null)">>

CallerHandle == <<"curl">>

\* The calls in which one of curl, endpoint, payload is NULL.
NullCalls ==
    { <<NullPtr, <<"a">>, <<"c">>>>,
      <<CallerHandle, NullPtr, <<"c">>>>,
      <<CallerHandle, <<"a">>, NullPtr>> }

Bodies == { "success", "{verification:{code:1002}}" }

\* What one curl_easy_perform can come back with: the CURLcode, the response
\* code curl_easy_getinfo reports afterwards, and the body received.
Outcome(r, c, b) == [res |-> r, code |-> c, body |-> b]

Outcomes ==
    { Outcome(CURLE_OK, 200, b) : b \in Bodies }
    \cup { Outcome(CURLE_OK, 404, ""), Outcome(CURLE_OK, 503, ""),
           Outcome(CURLE_COULDNT_CONNECT, 0, ""),
           Outcome(CURLE_OPERATION_TIMEDOUT, 0, ""),
           Outcome(CURLE_SSL_CONNECT_ERROR, 0, "") }

\* Values an uninitialised CURLcode local can hold when it is read.
UninitRes == { CURLE_OK, CURLE_COULDNT_CONNECT, CURLE_SSL_CONNECT_ERROR }

\* A string field of global_config: the text it points to (a sequence, as
\* for endpoints; NullPtr for a NULL pointer) and the memory that holds it: "static" for a string
\* literal, "heap" for a strdup'ed copy, "freed" once free() was called on
\* it, "null" for a NULL pointer.
NoString == [s |-> NullPtr, mem |-> "null"]

DefaultConfig ==
    [ max_retries |-> 3, enable_caching |-> TRUE, enable_metrics |-> TRUE,
      enable_connection_pooling |-> TRUE,
      base_url |-> [s |-> <<"https://api-mock.payments.jpmorgan.com/tsapi/v2">>,
                    mem |-> "static"],
      timeout |-> 30,
      client_cert_path |-> NoString,
      client_key_path |-> NoString ]

\* The argument a caller builds to change one field: the other fields as
\* they are, the strings left out (NULL).
AsArgument(cfg) ==
    [ cfg EXCEPT !.base_url = NullPtr, !.client_cert_path = NullPtr,
                 !.client_key_path = NullPtr ]

\* Arguments of validation_set_config; a NULL string is NullPtr.
Configs ==
    [ max_retries : 0 .. MaxRetries, enable_caching : BOOLEAN,
      enable_metrics : {TRUE}, enable_connection_pooling : {TRUE},
      base_url : {NullPtr}, timeout : {DefaultConfig.timeout},
      client_cert_path : {NullPtr}, client_key_path : {NullPtr} ]

----------------------------------------------------------------------------
(* Helpers *)

Min(a, b) == IF a < b THEN a ELSE b

RECURSIVE Pow2(_)
Pow2(n) == IF n <= 0 THEN 1 ELSE 2 * Pow2(n - 1)

\* snprintf(buf, size, ...): at most size-1 characters are kept.
Snprintf(size, s) == IF Len(s) > size - 1 THEN SubSeq(s, 1, size - 1) ELSE s

\* snprintf(cache_key, sizeof(cache_key), "%s:%s", endpoint, payload)
CacheKey(endpoint, payload) == Snprintf(KEY_BUF, endpoint \o <<":">> \o payload)

NoError == [set |-> FALSE, code |-> 0, message |-> ""]

\* set_validation_error: fills the caller's struct, when there is one.
set_validation_error(supplied, code, message) ==
    IF supplied THEN [set |-> TRUE, code |-> code, message |-> message]
    ELSE NoError

HttpMessage(code) == "HTTP <code>"

curl_easy_strerror(res) == "curl error"

----------------------------------------------------------------------------
(* Response cache *)

\* Index of the first entry of the list whose key is `key`, 0 when none.
FindFirst(cache, key) ==
    IF \E i \in 1 .. Len(cache) : cache[i].key = key
    THEN CHOOSE i \in 1 .. Len(cache) :
            /\ cache[i].key = key
            /\ \A j \in 1 .. i - 1 : cache[j].key # key
    ELSE 0

RemoveAt(s, i) == SubSeq(s, 1, i - 1) \o SubSeq(s, i + 1, Len(s))

\* (mutant) the comparison the wrong way round
IsFresh_Inverted(entry, t) == entry.expiry < t

\* current->expiry > now
IsFresh(entry, t) == entry.expiry > t

\* (mutant) a hit renews the entry's expiry: a sliding TTL
HitEntry_Sliding(entry, t, stamp) ==
    [entry EXCEPT !.used = stamp, !.expiry = t + CACHE_TTL]

\* The entry a hit leaves at the head: its fields are untouched by the code;
\* `used` is the observation of when it was last used.
HitEntry(entry, t, stamp) == [entry EXCEPT !.used = stamp]

\* get_cached_response(key) at time t.  Result: the new list, whether a copy
\* of a response is returned, and the entry that was found.
get_cached_response(cfg, cache, key, t, stamp) ==
    LET i == FindFirst(cache, key)
        miss == [cache |-> cache, hit |-> FALSE, expired |-> FALSE,
                 response |-> "", stored |-> 0]
    IN  IF ~cfg.enable_caching THEN miss
        ELSE IF i = 0 THEN miss
        ELSE IF IsFresh(cache[i], t)
             THEN [ cache |-> <<HitEntry(cache[i], t, stamp)>> \o RemoveAt(cache, i),
                    hit |-> TRUE, expired |-> FALSE,
                    response |-> cache[i].response, stored |-> cache[i].stored ]
             ELSE [ cache |-> RemoveAt(cache, i),
                    hit |-> FALSE, expired |-> TRUE,
                    response |-> "", stored |-> cache[i].stored ]

\* (mutant) the full cache drops its first entry instead of its last
EvictIfFull_Head(cache) ==
    IF Len(cache) >= CACHE_MAX THEN SubSeq(cache, 2, Len(cache)) ELSE cache

\* (mutant) a full cache is left as it is
EvictIfFull_Never(cache) == cache

\* The list after the "remove oldest if cache is full" block of cache_response.
EvictIfFull(cache) ==
    LET count == Min(Len(cache), CACHE_MAX)
    IN  IF count >= CACHE_MAX /\ Len(cache) >= 2
        THEN SubSeq(cache, 1, Len(cache) - 1)
        ELSE cache

\* The entry cache_response allocates; stored and used are observations.
NewEntry(key, response, t, stamp) ==
    [ key |-> key, response |-> response, expiry |-> t + CACHE_TTL,
      stored |-> t, used |-> stamp ]

\* (mutant) the new entry is linked at the tail of the list
cache_response_Tail(cfg, cache, key, response, t, stamp) ==
    IF ~cfg.enable_caching THEN cache
    ELSE EvictIfFull(cache) \o <<NewEntry(key, response, t, stamp)>>

\* cache_response(key, response) at time t.
cache_response(cfg, cache, key, response, t, stamp) ==
    IF ~cfg.enable_caching THEN cache
    ELSE <<NewEntry(key, response, t, stamp)>> \o EvictIfFull(cache)

----------------------------------------------------------------------------
(* Connection pool *)

\* get_connection_from_pool, the branch that reads the pool:
\* connections[current_index], then current_index = (current_index+1) % pool_size.
PoolSlot(conns, idx) == conns[idx + 1]

NextIndex(conns, idx) == (idx + 1) % Len(conns)

\* What the read of connections[idx] can give.  A slot at or beyond pool_size
\* of the malloc'ed array was never written: it holds NULL, or the pointer
\* of a handle created earlier that the memory held before, or anything
\* else (WildPointer).
WildPointer == -1

SlotRead(conns, idx, created) ==
    IF idx < Len(conns) THEN {PoolSlot(conns, idx)}
    ELSE (NoHandle .. created) \cup {WildPointer}

\* (mutant) the pool is read whenever it is not empty
TakesFresh_IgnoresToggle(cfg, conns) == Len(conns) = 0

\* Does get_connection_from_pool call curl_easy_init?
TakesFresh(cfg, conns) == ~cfg.enable_connection_pooling \/ Len(conns) = 0

\* return_connection_to_pool(curl): does the handle go into the array?
Retains(cfg, conns) ==
    cfg.enable_connection_pooling /\ Len(conns) < MAX_CONNECTIONS

\* (mutant) with pooling disabled the handle is neither kept nor cleaned up
return_connection_to_pool_Leak(cfg, conns, cl, h) ==
    IF ~cfg.enable_connection_pooling
    THEN [connections |-> conns, cleaned |-> cl]
    ELSE IF Len(conns) < MAX_CONNECTIONS
    THEN [connections |-> Append(conns, h), cleaned |-> cl]
    ELSE [connections |-> conns, cleaned |-> [cl EXCEPT ![h] = @ + 1]]

\* return_connection_to_pool(curl): the array and the cleanup counts after it.
return_connection_to_pool(cfg, conns, cl, h) ==
    IF Retains(cfg, conns)
    THEN [connections |-> Append(conns, h), cleaned |-> cl]
    ELSE [connections |-> conns, cleaned |-> [cl EXCEPT ![h] = @ + 1]]

----------------------------------------------------------------------------
(* Retry loop *)

IsSuccessStatus(code) == code >= 200 /\ code < 300

\* (mutant) every failure status is retried, not only the 5xx ones
IsServerError_AnyFailure(code) == code >= 400

\* "Retry on 5xx errors": response_code >= 500
IsServerError(code) == code >= 500

\* "Retry on network errors"
IsNetworkError(res) ==
    res = CURLE_COULDNT_CONNECT \/ res = CURLE_OPERATION_TIMEDOUT

\* (mutant) the loop goes round whatever the count
LoopGuard_Always(retry_count, max_retries) == TRUE

\* while (retry_count < max_retries)
LoopGuard(retry_count, max_retries) == retry_count < max_retries

\* The inner test that decides whether to sleep and double the interval.
SleepGuard(retry_count, max_retries) == retry_count < max_retries

\* int: 32 bits, two's complement
INT_MAX == 2147483647

INT_MIN == -INT_MAX - 1

\* 2^30: an int from here on doubles to more than INT_MAX
HALF_RANGE == 1073741824

\* a / b of C for b > 0: the quotient is truncated toward zero.
CDiv(a, b) == IF a >= 0 THEN a \div b ELSE -((-a) \div b)

\* sleep(backoff_ms / 1000): the int quotient q.  sleep() takes an unsigned
\* int, so a negative q asks for 2^32 + q seconds.
SleepSeconds(backoff_ms) == CDiv(backoff_ms, 1000)

\* A sleep of 2^32 + q seconds (q < 0), more than 136 years, does not come
\* back within the time the clock of the model counts.
SleepReturns(seconds) == seconds >= 0

\* Does backoff_ms *= 2 overflow the int (undefined behaviour)?
BackoffOverflows(backoff_ms) ==
    backoff_ms >= HALF_RANGE \/ backoff_ms < -HALF_RANGE

\* (mutant) the interval grows by its start value instead of doubling
NextBackoff_Linear(backoff_ms) == backoff_ms + BACKOFF_START_MS

\* (mutant) the interval is kept in 16 bits
NextBackoff_Short(backoff_ms) ==
    IF backoff_ms >= HALF_RANGE \/ backoff_ms < -HALF_RANGE THEN 0
    ELSE ((backoff_ms * 2 + 32768) % 65536) - 32768

\* backoff_ms *= 2, in an int; on overflow, the value a build that does not
\* trap leaves there.
NextBackoff(backoff_ms) ==
    IF backoff_ms >= HALF_RANGE
    THEN (backoff_ms - HALF_RANGE - HALF_RANGE) * 2
    ELSE IF backoff_ms < -HALF_RANGE
    THEN (backoff_ms + HALF_RANGE + HALF_RANGE) * 2
    ELSE backoff_ms * 2

\* One iteration of the loop of validation_retry_with_backoff on outcome o:
\* the new retry_count and backoff_ms, the sleep made (<<seconds>>, or <<>>
\* when none), whether the loop goes round again, and whether the doubling
\* overflowed.
RetryIteration(retry_count, backoff_ms, max_retries, o) ==
    LET stop == [ retry_count |-> retry_count, backoff_ms |-> backoff_ms,
                  slept |-> <<>>, again |-> FALSE, overflow |-> FALSE ]
        rc == retry_count + 1
        nosleep == [ retry_count |-> rc, backoff_ms |-> backoff_ms,
                     slept |-> <<>>, again |-> FALSE, overflow |-> FALSE ]
        sleep == [ retry_count |-> rc, backoff_ms |-> NextBackoff(backoff_ms),
                   slept |-> <<SleepSeconds(backoff_ms)>>, again |-> TRUE,
                   overflow |-> BackoffOverflows(backoff_ms) ]
    IN  IF o.res = CURLE_OK /\ IsSuccessStatus(o.code) THEN stop
        ELSE IF o.res = CURLE_OK /\ IsServerError(o.code)
             \* ends in `continue`: the loop condition decides
             THEN IF SleepGuard(rc, max_retries)
                  THEN [sleep EXCEPT !.again = LoopGuard(rc, max_retries)]
                  ELSE [nosleep EXCEPT !.again = LoopGuard(rc, max_retries)]
        ELSE IF IsNetworkError(o.res)
             \* `continue` only after the sleep, else falls to `break`
             THEN IF SleepGuard(rc, max_retries) THEN sleep ELSE nosleep
        ELSE stop

----------------------------------------------------------------------------
(* Metrics *)

\* (mutant) the slot is written but metrics_count is not advanced
record_metrics_NoCount(cfg, buffer, m) == buffer

\* (mutant) the capacity test lets one more metric in
record_metrics_OffByOne(cfg, buffer, m) ==
    IF ~cfg.enable_metrics THEN buffer
    ELSE IF Len(buffer) <= MAX_METRICS THEN Append(buffer, m)
    ELSE buffer

\* record_metrics(&metrics)
record_metrics(cfg, buffer, m) ==
    IF ~cfg.enable_metrics THEN buffer
    ELSE IF Len(buffer) < MAX_METRICS THEN Append(buffer, m)
    ELSE buffer

----------------------------------------------------------------------------
(* State *)

\* (mutant) the log is copied whether or not metrics are enabled
validation_get_metrics_IgnoresToggle(cfg, buffer, alloc_ok) ==
    IF ~alloc_ok
    THEN [ret |-> -1, metrics |-> NullPtr, count |-> "unset"]
    ELSE [ret |-> 0, metrics |-> buffer, count |-> Len(buffer)]

\* validation_get_metrics(&metrics, &count): the return value and what the
\* two out-parameters hold.  alloc_ok: malloc does not return NULL.
validation_get_metrics(cfg, buffer, alloc_ok) ==
    IF ~cfg.enable_metrics
    THEN [ret |-> 0, metrics |-> NullPtr, count |-> 0]
    ELSE IF ~alloc_ok
    THEN [ret |-> -1, metrics |-> NullPtr, count |-> "unset"]
    ELSE [ret |-> 0, metrics |-> buffer, count |-> Len(buffer)]

Handles == 1 .. MaxHandles

Threads == 1 .. NumThreads

NoOp == [ n |-> 0, type |-> "none", key |-> <<>>, value |-> "", enabled |-> FALSE,
          hit |-> FALSE, expired |-> FALSE, stored |-> 0, at |-> 0,
          before |-> 0, after |-> 0 ]

NoArgument == [n |-> 0, c |-> AsArgument(DefaultConfig)]

\* A request of the race specifications that has not started.
NoThread ==
    [ pc |-> "start", key |-> <<>>, hit |-> FALSE, count |-> 0,
      m |-> <<>>, accepted |-> FALSE ]

NoSnapshot == [n |-> 0, ret |-> 0, metrics |-> NullPtr, count |-> "unset"]

NoCall ==
    [ n |-> 0, path |-> "none", endpoint |-> <<>>, payload |-> <<>>, key |-> <<>>,
      err |-> FALSE, caching |-> FALSE, max_retries |-> 0,
      conn |-> NoHandle, retry_count |-> 0, backoff_ms |-> 0,
      res |-> CURLE_OK, start_time |-> 0,
      exchanges |-> 0, seen |-> {}, last |-> <<>>, sleeps |-> <<>>,
      ret |-> CURLE_OK, error |-> NoError,
      \* observations: the curl argument; the handle taken; the pool
      \* slots, the handle's cleanups, the metrics count and enable_metrics
      \* at that time
      curl |-> <<>>, handle |-> NoHandle,
      slots0 |-> 0, cleaned0 |-> 0, metrics0 |-> 0, metrics_on |-> FALSE,
      \* observations: what the call read of global_config: base_url and
      \* enable_connection_pooling when it took its connection;
      \* enable_metrics, enable_caching and enable_connection_pooling
      \* after the retry loop
      base_url |-> NoString, pooling0 |-> FALSE,
      metrics1 |-> FALSE, caching1 |-> FALSE, pooling1 |-> FALSE,
      \* observation, for a call answered from the cache: endpoint and
      \* payload of the call made before it
      before |-> <<>> ]

Init ==
    /\ config = DefaultConfig
    /\ connections = <<>>
    /\ current_index = 0
    /\ next_handle = 0
    /\ cleaned = [h \in Handles |-> 0]
    /\ hinfo = [h \in Handles |-> 0]
    /\ cache_head = <<>>
    /\ metrics_buffer = <<>>
    /\ now = 0
    /\ pc = "idle"
    /\ call = NoCall
    /\ ncalls = 0
    /\ lclock = 0
    /\ op = NoOp
    /\ held = [t \in Threads |-> NoHandle]
    /\ released = 0
    /\ snapshot = NoSnapshot
    /\ cfgarg = NoArgument
    /\ thread = [t \in Threads |-> NoThread]

poolVars == <<connections, current_index, next_handle, cleaned, hinfo>>

----------------------------------------------------------------------------
(* curl_validation_enhanced *)

Returned(c) == [c EXCEPT !.conn = NoHandle]

\* (mutant) the handle is not tested
BadArguments_IgnoresHandle(curl, endpoint, payload) ==
    endpoint = NullPtr \/ payload = NullPtr

\* (mutant) an empty string is rejected like a NULL one
BadArguments_Empty(curl, endpoint, payload) ==
    \/ curl = NullPtr \/ endpoint = NullPtr \/ payload = NullPtr
    \/ endpoint = <<>> \/ payload = <<>>

\* if (!curl || !endpoint || !payload)
BadArguments(curl, endpoint, payload) ==
    curl = NullPtr \/ endpoint = NullPtr \/ payload = NullPtr

\* The call up to the start of the retry loop: the argument check, the cache
\* lookup, the connection and the loop's first test.  err: the caller passes
\* an Error to fill.  init_ok: curl_easy_init, if called, succeeds.
Validate(curl, endpoint, payload, err, init_ok) ==
    LET bad == BadArguments(curl, endpoint, payload)
        key == CacheKey(endpoint, payload)
        look == get_cached_response(config, cache_head, key, now, lclock + 1)
        fresh == TakesFresh(config, connections)
        h == IF fresh THEN next_handle + 1 ELSE PoolSlot(connections, current_index)
        base == [ NoCall EXCEPT !.n = ncalls + 1, !.curl = curl,
                                !.endpoint = endpoint, !.payload = payload,
                                !.key = key, !.err = err,
                                !.caching = config.enable_caching,
                                !.max_retries = config.max_retries ]
        lookop == [ NoOp EXCEPT !.n = ncalls + 1,
                                !.type = "lookup", !.key = key,
                                !.value = look.response,
                                !.enabled = config.enable_caching,
                                !.hit = look.hit, !.expired = look.expired,
                                !.stored = look.stored, !.at = now,
                                !.before = Len(cache_head),
                                !.after = Len(look.cache) ]
        taken == [ base EXCEPT !.path = "network", !.conn = h, !.handle = h,
                               !.slots0 = Len(connections),
                               !.cleaned0 = cleaned[h],
                               !.metrics0 = Len(metrics_buffer),
                               !.metrics_on = config.enable_metrics,
                               !.base_url = config.base_url,
                               !.pooling0 = config.enable_connection_pooling,
                               !.start_time = now,
                               !.backoff_ms = BACKOFF_START_MS ]
    IN  /\ pc = "idle"
        /\ ncalls < MaxCalls
        /\ ncalls' = ncalls + 1
        /\ UNCHANGED <<thread, snapshot, cfgarg, config, metrics_buffer, now, cleaned, held,
                       released>> /\ IF bad
           THEN /\ call' = [ NoCall EXCEPT !.n = ncalls + 1, !.curl = curl,
                                !.endpoint = endpoint, !.payload = payload,
                                !.path = "args", !.err = err,
                                !.ret = CURLE_BAD_FUNCTION_ARGUMENT,
                                !.error = set_validation_error(err, 400,
                                              "Invalid parameters") ]
                /\ pc' = "idle"
                /\ UNCHANGED <<cache_head, lclock, op, connections,
                               current_index, next_handle, hinfo>>
           ELSE /\ cache_head' = look.cache
                /\ op' = lookop
                /\ lclock' = IF look.hit THEN lclock + 1 ELSE lclock
                /\ IF look.hit
                   THEN /\ call' = [ base EXCEPT !.path = "cache", !.ret = CURLE_OK,
                                         !.before = <<call.endpoint,
                                                      call.payload>> ]
                        /\ pc' = "idle"
                        /\ UNCHANGED <<connections, current_index, next_handle, hinfo>>
                   ELSE IF fresh /\ (~init_ok \/ next_handle >= MaxHandles)
                   THEN /\ call' = [ base EXCEPT !.path = "pool",
                                        !.ret = CURLE_OUT_OF_MEMORY,
                                        !.error = set_validation_error(err, 500,
                                              "Connection pool exhausted") ]
                        /\ pc' = "idle"
                        /\ UNCHANGED <<connections, current_index, next_handle, hinfo>>
                   ELSE /\ IF fresh
                           THEN /\ next_handle' = h
                                /\ hinfo' = [hinfo EXCEPT ![h] = 0]
                                /\ UNCHANGED current_index
                           ELSE /\ current_index' = NextIndex(connections, current_index)
                                /\ UNCHANGED <<next_handle, hinfo>>
                        /\ UNCHANGED connections
                        /\ IF LoopGuard(0, config.max_retries)
                           THEN /\ pc' = "loop"
                                /\ call' = taken
                           ELSE \* the loop body never runs: res is returned
                                \* without ever having been assigned
                                /\ pc' = "finish"
                                /\ \E r \in UninitRes :
                                     call' = [taken EXCEPT !.res = r]

\* One iteration of the retry loop: curl_easy_perform comes back with o.
\* Where the doubling overflows the call goes on with the wrapped value or
\* the process dies there (a build that traps).
Perform(o) ==
    LET it == RetryIteration(call.retry_count, call.backoff_ms,
                             call.max_retries, o)
        asleep == it.slept # <<>> /\ ~SleepReturns(it.slept[1])
    IN  /\ pc = "loop"
        /\ hinfo' = [hinfo EXCEPT ![call.conn] = o.code]
        /\ call' = [ call EXCEPT !.res = o.res,
                                 !.retry_count = it.retry_count,
                                 !.backoff_ms = IF asleep THEN call.backoff_ms
                                                ELSE it.backoff_ms,
                                 !.exchanges = @ + 1,
                                 !.seen = @ \cup {o},
                                 !.last = <<o>>,
                                 !.sleeps = @ \o it.slept ]
        /\ now' = IF it.slept = <<>> \/ asleep THEN now ELSE now + it.slept[1]
        /\ pc' \in IF ~it.again THEN {"finish"}
                   ELSE IF asleep THEN {"asleep"}
                   ELSE IF it.overflow THEN {"loop", "crashed"}
                   ELSE {"loop"}
        /\ UNCHANGED <<thread, snapshot, cfgarg, config, connections, current_index, next_handle, cleaned,
                       cache_head, metrics_buffer, ncalls, lclock, op,
                       held, released>>

\* The value cache_response is given for a successful response with this body.
CachedValue(body) == "success"

\* The call after the retry loop: the metric, the cache store or the Error,
\* the return of the connection, and the return value.
Finish ==
    LET m == [request_time |-> now - call.start_time, retry_count |-> 0]
        code == hinfo[call.conn]
        ok == call.res = CURLE_OK /\ IsSuccessStatus(code)
        body == IF call.last = <<>> THEN "" ELSE call.last[1].body
        stored == cache_response(config, cache_head, call.key,
                                 CachedValue(body), now, lclock + 1)
        back == return_connection_to_pool(config, connections, cleaned,
                                          call.conn)
        read == [ call EXCEPT
                    !.metrics1 = config.enable_metrics,
                    !.caching1 = config.enable_caching,
                    !.pooling1 = config.enable_connection_pooling ]
    IN  /\ pc = "finish"
        /\ metrics_buffer' = record_metrics(config, metrics_buffer, m)
        /\ IF ok
           THEN /\ cache_head' = stored
                /\ lclock' = IF config.enable_caching THEN lclock + 1 ELSE lclock
                /\ op' = [ NoOp EXCEPT !.n = call.n,
                                       !.type = "store", !.key = call.key,
                                       !.value = CachedValue(body),
                                       !.enabled = config.enable_caching,
                                       !.at = now,
                                       !.before = Len(cache_head),
                                       !.after = Len(stored) ]
                /\ call' = Returned([read EXCEPT !.ret = call.res])
           ELSE /\ UNCHANGED <<cache_head, lclock, op>>
                /\ call' = Returned([ read EXCEPT !.ret = call.res,
                              !.error =
                                 IF call.res = CURLE_OK
                                 THEN set_validation_error(call.err, code,
                                                           HttpMessage(code))
                                 ELSE set_validation_error(call.err, call.res,
                                                curl_easy_strerror(call.res)) ])
        /\ connections' = back.connections
        /\ cleaned' = back.cleaned
        /\ released' = released + 1
        /\ pc' = "idle"
        /\ UNCHANGED <<thread, snapshot, cfgarg, config, current_index, next_handle, hinfo,
                       now, ncalls, held>>

\* free(p) is undefined for a string literal and for memory already freed.
BadFree(str) == str.mem \in {"static", "freed"}

\* (mutant) a NULL string in the argument clears the field
SetString_Overwrites(old, new) ==
    IF new = NullPtr THEN NoString ELSE [s |-> new, mem |-> "heap"]

\* if (config->f) { free(global_config.f); global_config.f = strdup(config->f); }
SetString(old, new) ==
    IF new = NullPtr THEN old ELSE [s |-> new, mem |-> "heap"]

\* validation_set_config(&c): global_config after the call.
validation_set_config(cfg, c) ==
    [ cfg EXCEPT !.base_url = SetString(cfg.base_url, c.base_url),
                 !.timeout = c.timeout,
                 !.max_retries = c.max_retries,
                 !.enable_caching = c.enable_caching,
                 !.enable_metrics = c.enable_metrics,
                 !.enable_connection_pooling = c.enable_connection_pooling,
                 !.client_cert_path =
                      SetString(cfg.client_cert_path, c.client_cert_path),
                 !.client_key_path =
                      SetString(cfg.client_key_path, c.client_key_path) ]

\* Does validation_set_config(&c) call free() on what it must not?
SetConfigUndefined(cfg, c) ==
    \/ c.base_url # NullPtr /\ BadFree(cfg.base_url)
    \/ c.client_cert_path # NullPtr /\ BadFree(cfg.client_cert_path)
    \/ c.client_key_path # NullPtr /\ BadFree(cfg.client_key_path)

\* validation_set_config(&c), whatever else is going on.  Where the call is
\* undefined it either goes on or the process dies.
ConfigUpdate(c) ==
    /\ pc # "crashed"
    /\ ncalls < MaxCalls
    /\ ncalls' = ncalls + 1
    /\ config' = validation_set_config(config, c)
    /\ cfgarg' = [n |-> ncalls + 1, c |-> c]
    /\ pc' \in IF SetConfigUndefined(config, c) THEN {pc, "crashed"}
               ELSE {pc}
    /\ UNCHANGED <<thread, snapshot, connections, current_index, next_handle, cleaned, hinfo,
                   cache_head, metrics_buffer, now, call, lclock, op,
                   held, released>>

\* validation_set_config(&c) called between two calls of the layer.
SetConfig(c) == pc = "idle" /\ ConfigUpdate(c)

\* Time passes between two calls of the client.  (Within a call the model
\* lets time pass only in the sleeps of the retry loop.)
Tick ==
    /\ pc = "idle"
    /\ now + TickStep <= MaxNow
    /\ now' = now + TickStep
    /\ UNCHANGED <<thread, snapshot, cfgarg, config, connections, current_index, next_handle, cleaned,
                   hinfo, cache_head, metrics_buffer, pc, call, ncalls, lclock, op,
                   held, released>>

Next ==
    \/ \E r \in Requests, err \in BOOLEAN, ok \in BOOLEAN :
          Validate(CallerHandle, r[1], r[2], err, ok)
    \/ \E a \in NullCalls, err \in BOOLEAN :
          Validate(a[1], a[2], a[3], err, TRUE)
    \/ \E o \in Outcomes : Perform(o)
    \/ Finish
    \/ \E c \in Configs : SetConfig(c)
    \/ Tick

Spec == Init /\ [][Next]_vars

----------------------------------------------------------------------------
(* The cache driven directly: get_cached_response and cache_response called *)
(* with any key and value, from a table that earlier stores have filled.    *)

Digit == <<"0", "1", "2", "3", "4", "5", "6", "7", "8", "9">>

\* Key of the i-th request stored before the run starts.
FillerKey(i) ==
    <<"f", Digit[((i \div 100) % 10) + 1], Digit[((i \div 10) % 10) + 1],
      Digit[(i % 10) + 1]>>

\* The table after PreFill stores of distinct keys at time 0, the i-th store
\* being the i-th use of the cache: the most recent one is at the head.
Prefilled ==
    [ i \in 1 .. PreFill |->
        NewEntry(FillerKey(PreFill + 1 - i), "success", 0, PreFill + 1 - i) ]

HarnessStoreKeys == { CacheKey(r[1], r[2]) : r \in Requests }

HarnessLookupKeys == HarnessStoreKeys \cup { FillerKey(1), FillerKey(2) }

InitCache ==
    /\ config = DefaultConfig
    /\ connections = <<>>
    /\ current_index = 0
    /\ next_handle = 0
    /\ cleaned = [h \in Handles |-> 0]
    /\ hinfo = [h \in Handles |-> 0]
    /\ cache_head \in { <<>>, Prefilled }
    /\ metrics_buffer = <<>>
    /\ now = 0
    /\ pc = "idle"
    /\ call = NoCall
    /\ ncalls = 0
    /\ lclock = Len(cache_head)
    /\ op = NoOp
    /\ held = [t \in Threads |-> NoHandle]
    /\ released = 0
    /\ snapshot = NoSnapshot
    /\ cfgarg = NoArgument
    /\ thread = [t \in Threads |-> NoThread]

\* get_cached_response(key)
CacheLookup(key) ==
    LET look == get_cached_response(config, cache_head, key, now, lclock + 1)
    IN  /\ ncalls < MaxOps
        /\ ncalls' = ncalls + 1
        /\ cache_head' = look.cache
        /\ lclock' = IF look.hit THEN lclock + 1 ELSE lclock
        /\ op' = [ NoOp EXCEPT !.n = ncalls + 1,
                               !.type = "lookup", !.key = key,
                               !.value = look.response,
                               !.enabled = config.enable_caching,
                               !.hit = look.hit, !.expired = look.expired,
                               !.stored = look.stored, !.at = now,
                               !.before = Len(cache_head),
                               !.after = Len(look.cache) ]
        /\ UNCHANGED <<thread, snapshot, cfgarg, config, connections, current_index, next_handle, cleaned,
                       hinfo, metrics_buffer, now, pc, call, held, released>>

\* cache_response(key, response)
CacheStore(key, response) ==
    LET stored == cache_response(config, cache_head, key, response, now, lclock + 1)
    IN  /\ ncalls < MaxOps
        /\ ncalls' = ncalls + 1
        /\ cache_head' = stored
        /\ lclock' = IF config.enable_caching THEN lclock + 1 ELSE lclock
        /\ op' = [ NoOp EXCEPT !.n = ncalls + 1,
                               !.type = "store", !.key = key, !.value = response,
                               !.enabled = config.enable_caching, !.at = now,
                               !.before = Len(cache_head),
                               !.after = Len(stored) ]
        /\ UNCHANGED <<thread, snapshot, cfgarg, config, connections, current_index, next_handle, cleaned,
                       hinfo, metrics_buffer, now, pc, call, held, released>>

\* validation_set_config with a configuration that differs from the current
\* one in enable_caching alone.
ToggleCaching ==
    /\ SetConfig([AsArgument(config) EXCEPT
                     !.enable_caching = ~config.enable_caching])

NextCache ==
    \/ \E k \in HarnessLookupKeys : CacheLookup(k)
    \/ \E k \in HarnessStoreKeys, b \in Bodies : CacheStore(k, b)
    \/ ToggleCaching
    \/ Tick

SpecCache == InitCache /\ [][NextCache]_vars

----------------------------------------------------------------------------
(* The layer with every toggle of the configuration, with empty strings as  *)
(* arguments, started either fresh or after a first successful call.  Time  *)
(* passes in the sleeps of the retry loop only.                             *)

\* Configurations that switch each feature on and off; max_retries is the
\* default or 0.
FlagConfigs ==
    [ max_retries : {0, DefaultConfig.max_retries},
      enable_caching : BOOLEAN,
      enable_metrics : BOOLEAN,
      enable_connection_pooling : BOOLEAN,
      base_url : {NullPtr}, timeout : {DefaultConfig.timeout},
      client_cert_path : {NullPtr}, client_key_path : {NullPtr} ]

\* (endpoint, payload) pairs, two with an empty, non-NULL string.
EdgeRequests ==
    { <<<<"a">>, <<"c">>>>, <<<<>>, <<"c">>>>, <<<<"a">>, <<>>>> }

\* The state a first call for ("a", "c"), answered 200 at time 0 under the
\* default configuration, leaves behind, at once or CACHE_TTL seconds later.
Warm ==
    /\ config = DefaultConfig
    /\ connections = <<1>>
    /\ current_index = 0
    /\ next_handle = 1
    /\ cleaned = [h \in Handles |-> 0]
    /\ hinfo = [h \in Handles |-> IF h = 1 THEN 200 ELSE 0]
    /\ cache_head = <<NewEntry(CacheKey(<<"a">>, <<"c">>), "success", 0, 1)>>
    /\ metrics_buffer = <<[request_time |-> 0, retry_count |-> 0]>>
    /\ now \in {0, CACHE_TTL}
    /\ pc = "idle"
    /\ lclock = 1
    /\ released = 1
    /\ held = [t \in Threads |-> NoHandle]
    /\ snapshot = NoSnapshot
    /\ cfgarg = NoArgument
    /\ thread = [t \in Threads |-> NoThread]

InitFlags ==
    \/ Init
    \/ /\ Warm
       /\ call = NoCall
       /\ ncalls = 0
       /\ op = NoOp

NextFlags ==
    \/ \E r \in EdgeRequests, err \in BOOLEAN, ok \in BOOLEAN :
          Validate(CallerHandle, r[1], r[2], err, ok)
    \/ \E a \in NullCalls, err \in BOOLEAN :
          Validate(a[1], a[2], a[3], err, TRUE)
    \/ \E o \in Outcomes : Perform(o)
    \/ Finish
    \/ \E c \in FlagConfigs : SetConfig(c)

SpecFlags == InitFlags /\ [][NextFlags]_vars

----------------------------------------------------------------------------
(* The pool driven directly by several requests in flight: each takes a     *)
(* handle with get_connection_from_pool, as curl_validation_enhanced does   *)
(* on a cache miss, and gives it back with return_connection_to_pool.  The  *)
(* file has no lock, so the calls of different requests interleave; each    *)
(* function is taken as one step.                                           *)

Borrowing == {t \in Threads : held[t] # NoHandle}

\* connection = get_connection_from_pool()
Acquire(t, init_ok) ==
    LET fresh == TakesFresh(config, connections)
    IN  /\ pc = "idle"
        /\ held[t] = NoHandle
        /\ released + Cardinality(Borrowing) < MaxRounds
        /\ IF fresh /\ (~init_ok \/ next_handle >= MaxHandles)
           THEN \* curl_easy_init returned NULL: the request fails
                UNCHANGED <<held, current_index, next_handle, hinfo, pc>>
           ELSE IF fresh
           THEN /\ held' = [held EXCEPT ![t] = next_handle + 1]
                /\ next_handle' = next_handle + 1
                /\ hinfo' = [hinfo EXCEPT ![next_handle + 1] = 0]
                /\ UNCHANGED <<current_index, pc>>
           ELSE \E h \in SlotRead(connections, current_index, next_handle) :
                /\ current_index' = NextIndex(connections, current_index)
                \* a NULL connection fails the request; the request dies
                \* on a pointer that is no handle at all
                /\ held' = IF h = WildPointer THEN held
                           ELSE [held EXCEPT ![t] = h]
                /\ pc' = IF h = WildPointer THEN "crashed" ELSE "idle"
                /\ UNCHANGED <<next_handle, hinfo>>
        /\ UNCHANGED <<thread, snapshot, cfgarg, config, connections, cleaned, cache_head, metrics_buffer,
                       now, call, ncalls, lclock, op, released>>

\* return_connection_to_pool(connection)
Release(t) ==
    LET back == return_connection_to_pool(config, connections, cleaned, held[t])
    IN  /\ pc = "idle"
        /\ held[t] # NoHandle
        /\ connections' = back.connections
        /\ cleaned' = back.cleaned
        /\ held' = [held EXCEPT ![t] = NoHandle]
        /\ released' = released + 1
        /\ UNCHANGED <<thread, snapshot, cfgarg, config, current_index, next_handle, hinfo, cache_head,
                       metrics_buffer, now, pc, call, ncalls, lclock, op>>

NextPool ==
    \/ \E t \in Threads, ok \in BOOLEAN : Acquire(t, ok)
    \/ \E t \in Threads : Release(t)

SpecPool == Init /\ [][NextPool]_vars

----------------------------------------------------------------------------
(* The metrics log driven directly: record_metrics called with the metrics  *)
(* a call can produce, on a log that is empty or nearly full.               *)

\* metrics.request_time: the seconds a call slept (0, 1, 1 + 2).
RequestTimes == {0, 1, 3}

HarnessMetrics == [request_time : RequestTimes, retry_count : {0}]

\* The log after PreFillMetrics earlier calls.
PrefilledMetrics ==
    [i \in 1 .. PreFillMetrics |-> [request_time |-> 0, retry_count |-> 0]]

InitMetrics ==
    /\ config = DefaultConfig
    /\ connections = <<>>
    /\ current_index = 0
    /\ next_handle = 0
    /\ cleaned = [h \in Handles |-> 0]
    /\ hinfo = [h \in Handles |-> 0]
    /\ cache_head = <<>>
    /\ metrics_buffer \in { <<>>, PrefilledMetrics }
    /\ now = 0
    /\ pc = "idle"
    /\ call = NoCall
    /\ ncalls = 0
    /\ lclock = 0
    /\ op = NoOp
    /\ held = [t \in Threads |-> NoHandle]
    /\ released = 0
    /\ snapshot = NoSnapshot
    /\ cfgarg = NoArgument
    /\ thread = [t \in Threads |-> NoThread]

\* record_metrics(&metrics)
RecordMetric(m) ==
    /\ ncalls < MaxRecords
    /\ ncalls' = ncalls + 1
    /\ metrics_buffer' = record_metrics(config, metrics_buffer, m)
    /\ UNCHANGED <<thread, snapshot, cfgarg, config, connections, current_index, next_handle, cleaned,
                   hinfo, cache_head, now, pc, call, lclock, op, held, released>>

\* validation_get_metrics(&metrics, &count)
GetMetrics(alloc_ok) ==
    LET got == validation_get_metrics(config, metrics_buffer, alloc_ok)
    IN  /\ ncalls < MaxRecords
        /\ ncalls' = ncalls + 1
        /\ snapshot' = [ n |-> ncalls + 1, ret |-> got.ret,
                         metrics |-> got.metrics, count |-> got.count ]
        /\ UNCHANGED <<thread, config, connections, current_index, next_handle,
                       cleaned, hinfo, cache_head, metrics_buffer, now, pc,
                       call, lclock, op, held, released, cfgarg>>

\* validation_set_config with a configuration that differs from the current
\* one in enable_metrics alone.
ToggleMetrics ==
    /\ SetConfig([AsArgument(config) EXCEPT
                     !.enable_metrics = ~config.enable_metrics])

NextMetrics ==
    \/ \E m \in HarnessMetrics : RecordMetric(m)
    \/ \E alloc_ok \in BOOLEAN : GetMetrics(alloc_ok)
    \/ ToggleMetrics

SpecMetrics == InitMetrics /\ [][NextMetrics]_vars

----------------------------------------------------------------------------
(* The configuration driven directly: validation_set_config called with     *)
(* arguments that supply or leave out each optional string.                 *)

FullConfigs ==
    [ max_retries : {DefaultConfig.max_retries, 5},
      enable_caching : BOOLEAN,
      enable_metrics : {TRUE},
      enable_connection_pooling : {TRUE},
      base_url : {NullPtr, <<"https://test-api.jpmorgan.com/tsapi/v2">>},
      timeout : {DefaultConfig.timeout, 60},
      client_cert_path : {NullPtr, <<"client.pem">>},
      client_key_path : {NullPtr, <<"client.key">>} ]

NextConfig == \E c \in FullConfigs : SetConfig(c)

SpecConfig == Init /\ [][NextConfig]_vars

----------------------------------------------------------------------------
(* validation_cleanup, and the layer used again after it *)

\* (mutant) the loop over the pool starts at the second slot
CleanupPool_SkipsFirst(conns, cl) ==
    [ h \in Handles |->
        cl[h] + Cardinality({i \in 2..Len(conns) : conns[i] = h}) ]

\* for (i = 0; i < pool_size; i++) curl_easy_cleanup(connections[i]):
\* the cleanup counts after the loop, one cleanup per slot.
CleanupPool(conns, cl) ==
    [ h \in Handles |->
        cl[h] + Cardinality({i \in 1..Len(conns) : conns[i] = h}) ]

\* free(global_config.f): the pointer is not reset, so a string that was
\* there stays there as memory that has been passed to free.
FreeString(str) ==
    IF str.mem = "null" THEN str ELSE [str EXCEPT !.mem = "freed"]

\* global_config after the three free() calls of validation_cleanup.
CleanupConfig(cfg) ==
    [ cfg EXCEPT !.base_url = FreeString(cfg.base_url),
                 !.client_cert_path = FreeString(cfg.client_cert_path),
                 !.client_key_path = FreeString(cfg.client_key_path) ]

\* Does validation_cleanup call free() on what it must not?
CleanupUndefined(cfg) ==
    \/ BadFree(cfg.base_url)
    \/ BadFree(cfg.client_cert_path)
    \/ BadFree(cfg.client_key_path)

\* validation_cleanup() between two calls of the layer.  current_index is
\* left as it was.  Where a free() is undefined the call either goes on or
\* the process dies there, after the cache, the pool and the metrics.
Cleanup ==
    /\ pc = "idle"
    /\ ncalls < MaxCalls
    /\ ncalls' = ncalls + 1
    /\ cache_head' = <<>>
    /\ cleaned' = CleanupPool(connections, cleaned)
    /\ connections' = <<>>
    /\ metrics_buffer' = <<>>
    /\ config' = CleanupConfig(config)
    /\ call' = [NoCall EXCEPT !.n = ncalls + 1, !.path = "cleanup"]
    /\ pc' \in IF CleanupUndefined(config) THEN {"idle", "crashed"}
               ELSE {"idle"}
    /\ UNCHANGED <<thread, current_index, next_handle, hinfo, now, lclock, op, held,
                   released, snapshot, cfgarg>>

\* The configurations set around a teardown: test_configuration's base URL
\* or none, pooling on or off.
TeardownConfigs ==
    { [ AsArgument(DefaultConfig) EXCEPT !.base_url = u,
                                         !.enable_connection_pooling = p ] :
        u \in {NullPtr, <<"https://test-api.jpmorgan.com/tsapi/v2">>},
        p \in BOOLEAN }

NextTeardown ==
    \/ \E r \in EdgeRequests, err \in BOOLEAN, ok \in BOOLEAN :
          Validate(CallerHandle, r[1], r[2], err, ok)
    \/ \E o \in Outcomes : Perform(o)
    \/ Finish
    \/ \E c \in TeardownConfigs : SetConfig(c)
    \/ Cleanup

SpecTeardown == InitFlags /\ [][NextTeardown]_vars

\* The pool with validation_cleanup called between the rounds.
NextPoolTeardown ==
    \/ NextPool
    \/ Cleanup

SpecPoolTeardown == Init /\ [][NextPoolTeardown]_vars

----------------------------------------------------------------------------
(* The cache used by several requests in flight, as curl_validation_enhanced *)
(* uses it: get_cached_response first and, after a miss and a successful     *)
(* exchange, cache_response.  The file has no lock, so the calls of          *)
(* different requests interleave; each function is taken as one step.        *)

\* get_cached_response(cache_key) of request t (line 311).
RaceLookup(t, key) ==
    LET look == get_cached_response(config, cache_head, key, now, lclock + 1)
    IN  /\ thread[t].pc = "start"
        /\ cache_head' = look.cache
        /\ lclock' = IF look.hit THEN lclock + 1 ELSE lclock
        /\ thread' = [thread EXCEPT ![t] =
                        [ NoThread EXCEPT !.pc = IF look.hit THEN "done"
                                                 ELSE "missed",
                                          !.key = key, !.hit = look.hit ]]
        /\ UNCHANGED <<config, connections, current_index, next_handle,
                       cleaned, hinfo, metrics_buffer, now, pc, call, ncalls,
                       op, held, released, snapshot, cfgarg>>

\* cache_response(cache_key, "success") of request t (line 366), its
\* exchange having been answered 2xx.
RaceStore(t) ==
    /\ thread[t].pc = "missed"
    /\ cache_head' = cache_response(config, cache_head, thread[t].key,
                                    CachedValue("success"), now, lclock + 1)
    /\ lclock' = IF config.enable_caching THEN lclock + 1 ELSE lclock
    /\ thread' = [thread EXCEPT ![t].pc = "done"]
    /\ UNCHANGED <<config, connections, current_index, next_handle,
                   cleaned, hinfo, metrics_buffer, now, pc, call, ncalls,
                   op, held, released, snapshot, cfgarg>>

NextCacheRace ==
    \/ \E t \in Threads, k \in HarnessStoreKeys : RaceLookup(t, k)
    \/ \E t \in Threads : RaceStore(t)
    \/ Tick

SpecCacheRace == InitCache /\ [][NextCacheRace]_vars

----------------------------------------------------------------------------
(* record_metrics run by several requests in flight.  The file has no lock   *)
(* and metrics_count is a plain int, so the loads and stores of              *)
(* `if (metrics_count < MAX_METRICS) metrics_buffer[metrics_count++] = *m`   *)
(* interleave: the test, the load of the index, and the stores of the slot   *)
(* and of the incremented count are steps of their own.                      *)

\* What a slot holds that lies below the count without having been written
\* since the count last passed it.
StaleMetric == [request_time |-> -1, retry_count |-> 0]

\* metrics_buffer[idx] = *m; metrics_count = idx + 1: the slots below the
\* new count.
WriteSlot(buffer, idx, m) ==
    IF idx <= Len(buffer)
    THEN SubSeq(buffer, 1, idx) \o <<m>>
    ELSE buffer \o [i \in 1 .. idx - Len(buffer) |-> StaleMetric] \o <<m>>

raceVars == <<config, connections, current_index, next_handle, cleaned,
              hinfo, cache_head, now, pc, call, ncalls, lclock, op, held,
              released, snapshot, cfgarg>>

\* if (!global_config.enable_metrics) return; ... if (metrics_count < MAX_METRICS)
MetricsTest(t, m) ==
    /\ thread[t].pc = "start"
    /\ thread' = [thread EXCEPT ![t] =
                    [ NoThread EXCEPT
                        !.pc = IF /\ config.enable_metrics
                                  /\ Len(metrics_buffer) < MAX_METRICS
                               THEN "tested" ELSE "done",
                        !.m = <<m>> ]]
    /\ UNCHANGED <<metrics_buffer, raceVars>>

\* metrics_count++, the load: the index the metric will be written at.
MetricsLoad(t) ==
    /\ thread[t].pc = "tested"
    /\ thread' = [thread EXCEPT ![t].pc = "loaded",
                                ![t].count = Len(metrics_buffer)]
    /\ UNCHANGED <<metrics_buffer, raceVars>>

\* metrics_count++, the store, and the store of the slot.
MetricsWrite(t) ==
    /\ thread[t].pc = "loaded"
    /\ metrics_buffer' = WriteSlot(metrics_buffer, thread[t].count,
                                   thread[t].m[1])
    /\ thread' = [thread EXCEPT ![t].pc = "done", ![t].accepted = TRUE]
    /\ UNCHANGED raceVars

NextMetricsRace ==
    \/ \E t \in Threads, m \in HarnessMetrics : MetricsTest(t, m)
    \/ \E t \in Threads : MetricsLoad(t)
    \/ \E t \in Threads : MetricsWrite(t)

SpecMetricsRace == InitMetrics /\ [][NextMetricsRace]_vars

----------------------------------------------------------------------------
(* The retry loop under a large max_retries and exchanges that keep failing *)

\* Arguments of validation_set_config that change max_retries alone.
BackoffConfigs ==
    { [AsArgument(DefaultConfig) EXCEPT !.max_retries = n] :
        n \in 0 .. MaxBackoffRetries }

\* One outcome of each kind the loop tells apart: a success, a 5xx status,
\* another status, a transport failure that is retried and one that is not.
BackoffOutcomes ==
    { Outcome(CURLE_OK, 200, "success"), Outcome(CURLE_OK, 503, ""),
      Outcome(CURLE_OK, 404, ""), Outcome(CURLE_COULDNT_CONNECT, 0, ""),
      Outcome(CURLE_SSL_CONNECT_ERROR, 0, "") }

NextBackoffRun ==
    \/ \E c \in BackoffConfigs : SetConfig(c)
    \/ \E err \in BOOLEAN :
          Validate(CallerHandle, <<"a">>, <<"c">>, err, TRUE)
    \/ \E o \in BackoffOutcomes : Perform(o)
    \/ Finish

SpecBackoff == Init /\ [][NextBackoffRun]_vars

----------------------------------------------------------------------------
(* The layer with a second thread that calls validation_set_config while a  *)
(* call is in progress.  The file has no lock; each step of the call (its   *)
(* start, an exchange, its end) and each update is taken as one step.       *)

NextRace ==
    \/ \E r \in EdgeRequests, err \in BOOLEAN, ok \in BOOLEAN :
          Validate(CallerHandle, r[1], r[2], err, ok)
    \/ \E o \in Outcomes : Perform(o)
    \/ Finish
    \/ \E c \in FlagConfigs : ConfigUpdate(c)

SpecRace == InitFlags /\ [][NextRace]_vars

----------------------------------------------------------------------------
(* Properties of the retry loop and of curl_validation_enhanced (Spec)      *)

\* A call that went to the network has returned.
Done == pc = "idle" /\ call.path = "network"

Is5xx(o) == o.res = CURLE_OK /\ o.code >= 500 /\ o.code < 600

Is2xx(o) == o.res = CURLE_OK /\ o.code >= 200 /\ o.code < 300

\* A status that is neither a success nor a server error (404, ...).
IsOtherStatus(o) == o.res = CURLE_OK /\ ~Is2xx(o) /\ o.code < 500

IsRetryableTransport(o) ==
    o.res = CURLE_COULDNT_CONNECT \/ o.res = CURLE_OPERATION_TIMEDOUT

\* C1: a call that misses the cache and whose every exchange comes back with
\* a 5xx status performs max_retries + 1 exchanges before it gives up.
C1_ServerErrorsTakeNPlusOneExchanges ==
    ( /\ Done
      /\ call.seen # {}
      /\ \A o \in call.seen : Is5xx(o) )
    => call.exchanges = call.max_retries + 1

\* C1, the case of the specification's example: max_retries = 3, always 503,
\* and the call has given up after 3 exchanges.
C1_ThreeExchangesOnly ==
    /\ Done
    /\ call.max_retries = 3
    /\ call.seen = {Outcome(CURLE_OK, 503, "")}
    /\ call.exchanges = 3

\* C2: when the final outcome of a call is not a 2xx success, the call
\* returns a result code other than CURLE_OK and a supplied Error carries a
\* non-zero code and a message.
C2_FailureIsNeverReportedAsSuccess ==
    ( /\ Done
      /\ call.last # <<>>
      /\ ~Is2xx(call.last[1]) )
    => /\ call.ret # CURLE_OK
       /\ call.err => ( /\ call.error.set
                        /\ call.error.code # 0
                        /\ call.error.message # "" )

\* C2, the failing case: a 404 comes back as CURLE_OK.
C2_NotFoundReturnsOk ==
    /\ Done
    /\ call.last = <<Outcome(CURLE_OK, 404, "")>>
    /\ call.ret = CURLE_OK
    /\ call.error.code = 404

\* C3: a status that is neither 2xx nor 5xx ends the retry loop at once: it
\* is the last exchange of the call, and when it answers the first exchange
\* the call makes exactly one exchange and never sleeps.
C3_OtherStatusIsNotRetried ==
    /\ \A o \in call.seen :
          IsOtherStatus(o) => (pc # "loop" /\ call.last = <<o>>)
    /\ ( /\ call.exchanges = 1
         /\ IsOtherStatus(call.last[1]) )
       => call.sleeps = <<>>
    /\ ( /\ call.sleeps = <<>>
         /\ call.last # <<>>
         /\ IsOtherStatus(call.last[1]) )
       => call.exchanges = 1

\* C3 witness: max_retries = 3, the first exchange was answered 404 and the
\* call has returned.
C3_Witness ==
    /\ Done
    /\ call.max_retries = 3
    /\ call.exchanges = 1
    /\ call.last = <<Outcome(CURLE_OK, 404, "")>>

\* C4: a call whose every exchange fails with a connect failure or a timeout
\* performs max_retries + 1 exchanges and returns that transport error.
C4_TransportErrorsTakeNPlusOneExchanges ==
    ( /\ Done
      /\ call.seen # {}
      /\ \A o \in call.seen : IsRetryableTransport(o) )
    => /\ call.exchanges = call.max_retries + 1
       /\ call.ret = call.last[1].res

\* C4, the failing case: max_retries = 3, every exchange times out or cannot
\* connect, and the call returns the transport error after 3 exchanges.
C4_ThreeExchangesOnly ==
    /\ Done
    /\ call.max_retries = 3
    /\ call.seen = { Outcome(CURLE_COULDNT_CONNECT, 0, ""),
                     Outcome(CURLE_OPERATION_TIMEDOUT, 0, "") }
    /\ call.exchanges = 3
    /\ call.ret = call.last[1].res

HoldsUnexpired(cache, key, t) ==
    \E i \in 1 .. Len(cache) :
        cache[i].key = key /\ t < cache[i].stored + CACHE_TTL

\* The step is a call of curl_validation_enhanced with valid arguments.
IsValidateStep ==
    /\ pc = "idle"
    /\ call'.n = ncalls + 1
    /\ call'.path \in {"cache", "pool", "network"}

\* C6: with caching enabled, a call for a key whose entry a successful call
\* stored and that has not yet expired returns CURLE_OK at once on the cached
\* path: no exchange, no connection taken from or returned to the pool, no
\* handle created or destroyed, no metric recorded.
C6_CachedPathTouchesNothing ==
    [][ ( /\ IsValidateStep
          /\ config.enable_caching
          /\ HoldsUnexpired(cache_head, call'.key, now) )
        => /\ call'.path = "cache"
           /\ call'.ret = CURLE_OK
           /\ call'.exchanges = 0
           /\ call'.conn = NoHandle
           /\ pc' = "idle"
           /\ UNCHANGED <<connections, current_index, next_handle, cleaned,
                          hinfo, metrics_buffer>> ]_vars

\* C6 witness: a call has returned through the cached path, for a request
\* that an earlier call sent to the network.
C6_Witness ==
    /\ pc = "idle"
    /\ call.path = "cache"
    /\ Len(metrics_buffer) = 1
    /\ Len(connections) = 1

\* C7: after a 2xx success with caching enabled, the entry at the head of the
\* cache is the request's and holds the body the transport returned.
C7_CacheHoldsResponseBody ==
    ( /\ Done
      /\ call.caching
      /\ call.ret = CURLE_OK
      /\ call.last # <<>>
      /\ Is2xx(call.last[1]) )
    => /\ cache_head # <<>>
       /\ cache_head[1].key = call.key
       /\ cache_head[1].response = call.last[1].body

\* C7, the failing case: the transport returned a body and the cache holds
\* the constant "success" for the request.
C7_CacheHoldsConstant ==
    /\ Done
    /\ call.last = <<Outcome(CURLE_OK, 200, "{verification:{code:1002}}")>>
    /\ cache_head # <<>>
    /\ cache_head[1].key = call.key
    /\ cache_head[1].response = "success"

----------------------------------------------------------------------------
(* Properties of the response cache (SpecCache)                             *)

Entries(cache) == { cache[i] : i \in 1 .. Len(cache) }

Keys(cache) == { cache[i].key : i \in 1 .. Len(cache) }

DistinctKeys(cache) == Cardinality(Keys(cache)) = Len(cache)

\* The entry whose latest store or hit is the oldest.
LeastRecentlyUsed(cache) ==
    CHOOSE e \in Entries(cache) : \A f \in Entries(cache) : e.used <= f.used

\* C8: a lookup never returns an entry more than CACHE_TTL seconds after it
\* was stored, hit in between or not; the lookup that finds the entry expired
\* unlinks it and reports a miss.
C8_TTLIsAbsolute ==
    op.type = "lookup" =>
        /\ op.hit => op.at <= op.stored + CACHE_TTL
        /\ op.expired => (~op.hit /\ op.after = op.before - 1)
        /\ (op.hit \/ op.expired) => op.enabled

\* C8 witness: a lookup found an entry stored more than CACHE_TTL seconds
\* earlier, removed it and missed.
C8_Witness ==
    /\ op.type = "lookup"
    /\ op.expired
    /\ op.at > op.stored + CACHE_TTL
    /\ ~op.hit

\* The step is a cache_response that took effect.
IsStoreStep == lclock' = lclock + 1 /\ op'.type = "store"

\* C9: a store of a new key into a table of CACHE_MAX (100) distinct keys
\* evicts exactly the least recently used entry; the other 99 entries stay,
\* unchanged, and the new entry is added.
C9_StoreEvictsLeastRecentlyUsed ==
    [][ ( /\ IsStoreStep
          /\ Len(cache_head) = CACHE_MAX
          /\ DistinctKeys(cache_head)
          /\ op'.key \notin Keys(cache_head) )
        => /\ Len(cache_head') = CACHE_MAX
           /\ cache_head'[1].key = op'.key
           /\ cache_head'[1].response = op'.value
           /\ Entries(cache_head') =
                (Entries(cache_head) \ {LeastRecentlyUsed(cache_head)})
                    \cup {cache_head'[1]} ]_vars

\* C9 witness: the table was full, its oldest entry was hit (and so moved to
\* the front), and a store of a new key then evicted the next oldest.
C9_Witness ==
    /\ op.type = "store"
    /\ op.before = CACHE_MAX
    /\ op.after = CACHE_MAX
    /\ DistinctKeys(cache_head)
    /\ FillerKey(1) \in Keys(cache_head)
    /\ FillerKey(2) \notin Keys(cache_head)

\* C10: right after store(key, value), with caching enabled and no time
\* passed, a lookup of the key hits and returns the stored value.
C10_LookupAfterStore ==
    ( /\ op.type = "store"
      /\ op.enabled
      /\ config.enable_caching
      /\ op.at = now )
    => LET look == get_cached_response(config, cache_head, op.key, now,
                                       lclock + 1)
       IN  look.hit /\ look.response = op.value

\* C10 witness: the store was for a key the table already held with another
\* value, and the lookup that followed returned the new value.
C10_Witness ==
    /\ op.type = "lookup"
    /\ op.hit
    /\ op.stored = now
    /\ \E i \in 2 .. Len(cache_head) :
          /\ cache_head[i].key = op.key
          /\ cache_head[i].response # op.value
          /\ cache_head[i].stored = now

----------------------------------------------------------------------------
(* Properties of the toggles, the pool and the argument check               *)

\* The call was made with a NULL handle, endpoint or payload.
NullArgument(c) ==
    c.curl = NullPtr \/ c.endpoint = NullPtr \/ c.payload = NullPtr

\* C11: with caching disabled the lookup misses, the store leaves the table
\* as it was, and so every call with valid arguments that obtains a
\* connection performs at least one exchange, also for a repeated pair.
C11_UncachedCallsExchange ==
    ( /\ pc = "idle"
      /\ call.n > 0
      /\ ~NullArgument(call)
      /\ ~call.caching
      /\ call.path # "pool" )
    => /\ call.path = "network"
       /\ op.n = call.n => (~op.hit /\ op.after = op.before)
       /\ call.exchanges >= 1

\* C11, the failing case: caching is disabled, max_retries is 0, and the call
\* has returned from the network path without a single exchange.
C11_NoExchange ==
    /\ Done
    /\ ~call.caching
    /\ call.max_retries = 0
    /\ call.exchanges = 0

RECURSIVE SumCleaned(_)
SumCleaned(n) == IF n = 0 THEN 0 ELSE cleaned[n] + SumCleaned(n - 1)

\* Handles destroyed so far (curl_easy_cleanup calls).
Discarded == SumCleaned(MaxHandles)

Idle == {connections[i] : i \in 1 .. Len(connections)}

\* C12: with two validate calls in flight and pooling enabled, acquire never
\* hands the same handle to both: no handle is borrowed by two requests at once.
C12_NoHandleBorrowedTwice ==
    \A s, t \in Threads :
       (s # t /\ held[s] # NoHandle) => held[s] # held[t]

\* C12, the failing case: one handle sits in the pool, and two requests that
\* each took a connection from it hold that same handle.
C12_SharedHandle ==
    /\ config.enable_connection_pooling
    /\ Len(connections) >= 1
    /\ \E s, t \in Threads :
          s # t /\ held[s] # NoHandle /\ held[s] = held[t]

\* C13: a handle a call has borrowed is not in the idle set, and the idle set
\* never holds the same handle twice.
C13_BorrowedHandlesLeaveThePool ==
    /\ pc # "idle" => call.conn \notin Idle
    /\ \A i, j \in 1 .. Len(connections) :
          connections[i] = connections[j] => i = j

\* C13, the failing case: the second call of a behaviour is in its retry loop
\* with the handle the first call returned, and the handle is still in the
\* array.
C13_BorrowedHandleStillIdle ==
    /\ pc = "loop"
    /\ call.conn # NoHandle
    /\ call.conn \in Idle

C15_ConnectionReleasedOnce ==
    /\ pc # "idle"
         => /\ call.conn # NoHandle
            /\ call.conn = call.handle
            /\ Len(connections) = call.slots0
            /\ cleaned[call.handle] = call.cleaned0
    /\ Done
         => /\ call.conn = NoHandle
            /\ (Len(connections) - call.slots0)
                 + (cleaned[call.handle] - call.cleaned0) = 1

\* C15 witness: with pooling disabled a call whose exchanges all failed has
\* returned an error, and its handle was destroyed once.
C15_Witness ==
    /\ Done
    /\ ~config.enable_connection_pooling
    /\ call.ret # CURLE_OK
    /\ call.exchanges = call.max_retries
    /\ call.exchanges > 1
    /\ call.conn = NoHandle
    /\ cleaned[call.handle] = call.cleaned0 + 1
    /\ Len(connections) = call.slots0

\* C16 (as stated): a call whose endpoint or payload is empty fails with the
\* bad-argument result before any cache lookup, connection or exchange.
C16_EmptyArgumentsRejected ==
    ( /\ call.n > 0
      /\ ~NullArgument(call)
      /\ (call.endpoint = <<>> \/ call.payload = <<>>) )
    => /\ call.path = "args"
       /\ call.ret = CURLE_BAD_FUNCTION_ARGUMENT
       /\ call.exchanges = 0
       /\ call.handle = NoHandle
       /\ op.n # call.n

\* C16 (amended): a call fails with the bad-argument result, before any cache
\* lookup, connection or exchange, exactly when its endpoint or payload (or
\* handle) is NULL; an empty endpoint or payload is processed like any other.
C16_OnlyNullIsRejected ==
    call.n > 0
    => /\ (call.path = "args") <=> NullArgument(call)
       /\ call.path = "args"
            => /\ call.ret = CURLE_BAD_FUNCTION_ARGUMENT
               /\ call.exchanges = 0
               /\ call.handle = NoHandle
               /\ op.n # call.n

\* C16 witness: a call with an empty endpoint was looked up in the cache under
\* the key ":c", took a connection and performed an exchange.
C16_Witness ==
    /\ Done
    /\ call.endpoint = <<>>
    /\ call.payload = <<"c">>
    /\ call.key = <<":", "c">>
    /\ call.exchanges >= 1
    /\ call.handle # NoHandle

\* A step in which curl_validation_enhanced is called with a NULL argument.
IsNullArgumentStep ==
    pc = "idle" /\ call'.n = ncalls + 1 /\ NullArgument(call')

\* C17: a call with a NULL handle, endpoint or payload returns the
\* bad-argument result, fills a supplied Error with code 400, performs no
\* exchange and leaves the cache, the pool and the metrics as they were.
C17_NullArgumentsChangeNothing ==
    [][ IsNullArgumentStep
        => /\ call'.ret = CURLE_BAD_FUNCTION_ARGUMENT
           /\ call'.path = "args"
           /\ pc' = "idle"
           /\ call'.exchanges = 0
           /\ call'.err => call'.error.code = 400
           /\ ~call'.err => call'.error = NoError
           /\ UNCHANGED <<cache_head, poolVars, metrics_buffer, released>> ]_vars

\* C17 witness: the call of the unit test, a NULL handle with an endpoint, a
\* payload and an Error, made when the cache, the pool and the metrics are
\* not empty.
C17_Witness ==
    /\ pc = "idle"
    /\ call.curl = NullPtr
    /\ call.endpoint # NullPtr
    /\ call.payload # NullPtr
    /\ call.err
    /\ call.ret = CURLE_BAD_FUNCTION_ARGUMENT
    /\ call.error.code = 400
    /\ Len(cache_head) > 0
    /\ Len(connections) > 0
    /\ Len(metrics_buffer) > 0

\* The call's last exchange was a transport success with a 2xx status.
EndedInSuccess(c) == c.last # <<>> /\ Is2xx(c.last[1])

\* C18: a response is stored only when the call's final outcome is a
\* transport success with a 2xx status; a call that ends otherwise stores
\* nothing, so a lookup of its key right after it is again a miss.
C18_OnlySuccessIsStored ==
    /\ (op.type = "store" /\ op.enabled /\ op.n = call.n)
         => EndedInSuccess(call)
    /\ (Done /\ ~EndedInSuccess(call))
         => ~get_cached_response(config, cache_head, call.key, now,
                                 lclock + 1).hit

\* C18, the failing case: max_retries is 0 and the pooled handle still
\* carries the 200 of an earlier call; the call performed no exchange, yet
\* its key was stored.
C18_StoredWithoutExchange ==
    /\ Done
    /\ call.max_retries = 0
    /\ call.exchanges = 0
    /\ call.ret = CURLE_OK
    /\ op.type = "store"
    /\ op.enabled
    /\ op.n = call.n
    /\ Len(cache_head) > 0
    /\ cache_head[1].key = call.key

\* C19: with metrics enabled and room in the log, a call that misses the
\* cache and acquires a connection appends exactly one metric, whether it
\* ends in success or in failure (none while it runs, one when it has
\* returned).
C19_OneMetricPerNetworkCall ==
    /\ pc # "idle" => Len(metrics_buffer) = call.metrics0
    /\ (Done /\ call.metrics_on /\ call.metrics0 < MAX_METRICS)
         => Len(metrics_buffer) = call.metrics0 + 1

\* C19 witness: a call whose exchanges all failed has returned an error and
\* the log, which held a metric before, holds one more.
C19_Witness ==
    /\ Done
    /\ call.metrics_on
    /\ call.ret # CURLE_OK
    /\ call.exchanges >= 1
    /\ call.metrics0 >= 1
    /\ Len(metrics_buffer) = call.metrics0 + 1

\* A step in which record_metrics is called on the log directly.
IsRecordStep == ncalls' = ncalls + 1 /\ config' = config

\* C20: the metrics log is bounded and append-only: it never holds more than
\* 1000 entries, no step changes or removes an entry already recorded, and
\* record_metrics on a full log or with metrics disabled leaves the count and
\* the entries as they were.
C20_MetricsBoundedAppendOnly ==
    [][ /\ Len(metrics_buffer) <= MAX_METRICS
        /\ Len(metrics_buffer') <= MAX_METRICS
        /\ Len(metrics_buffer') >= Len(metrics_buffer)
        /\ SubSeq(metrics_buffer', 1, Len(metrics_buffer)) = metrics_buffer
        /\ ( /\ IsRecordStep
             /\ (Len(metrics_buffer) = MAX_METRICS \/ ~config.enable_metrics) )
           => metrics_buffer' = metrics_buffer ]_vars

\* C20 witness: record_metrics filled the last slot of the log, and it was
\* called again on the full log.
C20_Witness ==
    /\ Len(metrics_buffer) = MAX_METRICS
    /\ metrics_buffer[MAX_METRICS].request_time # 0
    /\ config.enable_metrics
    /\ ncalls = MaxRecords

----------------------------------------------------------------------------
(* Properties of the retry bound, the snapshot, the configuration and       *)
(* teardown                                                                 *)

\* C28: with max_retries = 0 a call that misses the cache performs exactly
\* one exchange, never sleeps, and returns the outcome of that exchange:
\* CURLE_OK when it is a 2xx success, a failure otherwise.
C28_ZeroRetriesMeansOneExchange ==
    (Done /\ call.max_retries = 0)
    => /\ call.exchanges = 1
       /\ call.sleeps = <<>>
       /\ call.last # <<>>
       /\ (call.ret = CURLE_OK) <=> EndedInSuccess(call)

\* C28, the failing case: max_retries is 0, the call has returned without an
\* exchange, and its result is whatever the unassigned res held.
C28_NoExchangeGarbageResult ==
    /\ Done
    /\ call.max_retries = 0
    /\ call.exchanges = 0
    /\ call.last = <<>>
    /\ call.ret = CURLE_SSL_CONNECT_ERROR

\* A failure the retry loop retries: a 5xx status, a connect failure or a
\* timeout.
IsRetryable(o) == Is5xx(o) \/ IsRetryableTransport(o)

\* C29: when k retryable failures, 1 <= k <= max_retries, are followed by a
\* 2xx response, the call ends at that response: it does not give up after
\* the k failures, it returns CURLE_OK, leaves the caller's Error alone and
\* stores the key in the cache.
C29_SuccessAfterRetries ==
    /\ ( /\ Done
         /\ call.exchanges >= 2
         /\ EndedInSuccess(call) )
       => /\ call.ret = CURLE_OK
          /\ call.error = NoError
          /\ call.caching
               => /\ op.type = "store" /\ op.n = call.n
                  /\ Len(cache_head) >= 1
                  /\ cache_head[1].key = call.key
    /\ ( /\ Done
         /\ call.exchanges >= 1
         /\ \A o \in call.seen : IsRetryable(o) )
       => call.exchanges > call.max_retries

\* C29, the failing case: max_retries = 2 and k = 2, a 503 and a timeout; the
\* call has returned the failure after two exchanges, before any third
\* exchange could bring the 2xx.
C29_GaveUpAfterKFailures ==
    /\ Done
    /\ call.max_retries = 2
    /\ call.exchanges = 2
    /\ call.seen = { Outcome(CURLE_OK, 503, ""),
                     Outcome(CURLE_OPERATION_TIMEDOUT, 0, "") }
    /\ call.ret # CURLE_OK

\* C30: whatever stores and lookups are made, including a store for a key
\* the table already holds, the table holds at most one entry per key.
C30_OneEntryPerKey == DistinctKeys(cache_head)

\* C30, the failing case: a key was stored, stored again with another value
\* while its entry had not expired, and the table holds both entries.
C30_TwoEntriesForOneKey ==
    /\ op.type = "store"
    /\ Len(cache_head) = 2
    /\ cache_head[1].key = cache_head[2].key
    /\ cache_head[1].response # cache_head[2].response
    /\ cache_head[2].expiry > now

\* A step of a curl_validation_enhanced call: its start, an exchange or its
\* end.
IsCallStep ==
    \/ pc = "idle" /\ call'.n = ncalls + 1
                   /\ call'.path \in {"args", "cache", "pool", "network"}
    \/ pc = "loop"
    \/ pc = "finish"

\* C24: while pooling is disabled a call never takes its handle from the
\* idle array but creates one, and at its end destroys that handle instead
\* of storing it, so no step of a call changes the idle array.
C24_DisabledPoolingBypassesPool ==
    [][ (IsCallStep /\ ~config.enable_connection_pooling)
        => /\ connections' = connections
           /\ current_index' = current_index
           /\ (pc = "idle" /\ call'.path = "network")
                => /\ next_handle' = next_handle + 1
                   /\ call'.handle = next_handle'
                   /\ call'.handle \notin Idle
           /\ pc = "finish"
                => cleaned' = [cleaned EXCEPT ![call.conn] = @ + 1] ]_vars

\* C24 witness: pooling is disabled while a handle sits in the idle array; a
\* call has used another, new handle and destroyed it, and the array is as
\* it was.
C24_Witness ==
    /\ Done
    /\ ~config.enable_connection_pooling
    /\ connections = <<1>>
    /\ call.slots0 = 1
    /\ call.handle = 2
    /\ call.exchanges >= 1
    /\ cleaned[2] = 1
    /\ cleaned[1] = 0

\* The step of a call in which curl_easy_init fails.
IsPoolFailureStep ==
    pc = "idle" /\ call'.n = ncalls + 1 /\ call'.path = "pool"

\* What a call whose handle creation fails returns and leaves alone, the
\* cache apart.
PoolFailureOutcome ==
    /\ pc' = "idle"
    /\ call'.ret = CURLE_OUT_OF_MEMORY
    /\ call'.err => call'.error.code = 500
    /\ ~call'.err => call'.error = NoError
    /\ call'.exchanges = 0
    /\ call'.handle = NoHandle
    /\ UNCHANGED <<metrics_buffer, connections, current_index, next_handle,
                   cleaned, released>>

\* C25 (as stated): when handle creation fails the call fails with the
\* pool-exhausted error, code 500 in a supplied Error, without a second
\* creation, an exchange or a metric, and leaves the cache and the idle set
\* unchanged.
C25_CreationFailureChangesNothing ==
    [][ IsPoolFailureStep
        => (PoolFailureOutcome /\ cache_head' = cache_head) ]_vars

\* C25 (amended): as stated, except that the cache is as the call's lookup
\* left it: unchanged, or without the expired entry the lookup found under
\* the call's key.
C25_CreationFailureAfterLookup ==
    [][ IsPoolFailureStep
        => /\ PoolFailureOutcome
           /\ \/ cache_head' = cache_head
              \/ \E i \in 1 .. Len(cache_head) :
                    /\ cache_head[i].key = call'.key
                    /\ cache_head[i].expiry <= now
                    /\ cache_head' = RemoveAt(cache_head, i) ]_vars

\* C25 witness: the call found its key's entry expired and removed it, then
\* failed to create a handle and filled the caller's Error with code 500.
C25_Witness ==
    /\ pc = "idle"
    /\ call.path = "pool"
    /\ call.ret = CURLE_OUT_OF_MEMORY
    /\ call.error.code = 500
    /\ op.n = call.n
    /\ op.expired
    /\ op.after = op.before - 1
    /\ cache_head = <<>>

\* A step in which validation_get_metrics is called.
IsGetMetricsStep == snapshot'.n = ncalls + 1

\* C21: validation_get_metrics does not modify the log; with metrics enabled
\* what it returns (when it returns 0) is a copy of the log, entries and
\* count, as of the call; with metrics disabled it returns an empty result,
\* count 0 and no entries, whatever the log holds.
C21_SnapshotCopiesTheLog ==
    [][ IsGetMetricsStep
        => /\ metrics_buffer' = metrics_buffer
           /\ (config.enable_metrics /\ snapshot'.ret = 0)
                => /\ snapshot'.metrics = metrics_buffer
                   /\ snapshot'.count = Len(metrics_buffer)
           /\ ~config.enable_metrics
                => /\ snapshot'.ret = 0
                   /\ snapshot'.metrics = NullPtr
                   /\ snapshot'.count = 0 ]_vars

\* C21 witness: metrics are disabled, the log holds entries, and the
\* snapshot just taken is empty.
C21_Witness ==
    /\ ~config.enable_metrics
    /\ Len(metrics_buffer) >= 2
    /\ snapshot.n = ncalls
    /\ snapshot.ret = 0
    /\ snapshot.count = 0
    /\ snapshot.metrics = NullPtr

\* A step in which validation_set_config is called and returns.
IsSetConfigStep == cfgarg'.n = ncalls + 1 /\ pc' = "idle"

\* The fields of the argument that are not optional strings are the active
\* ones after the call.
ScalarsReplaced ==
    /\ config'.timeout = cfgarg'.c.timeout
    /\ config'.max_retries = cfgarg'.c.max_retries
    /\ config'.enable_caching = cfgarg'.c.enable_caching
    /\ config'.enable_metrics = cfgarg'.c.enable_metrics
    /\ config'.enable_connection_pooling = cfgarg'.c.enable_connection_pooling

EndReadsFrom(cfg) ==
    /\ call.metrics1 = cfg.enable_metrics
    /\ call.caching1 = cfg.enable_caching
    /\ call.pooling1 = cfg.enable_connection_pooling

\* C23: a call that runs while the configuration is updated reads either the
\* old configuration or the new one throughout: what it read when it took
\* its connection and what it read after the retry loop belong to one
\* configuration.
C23_CallSeesOneConfiguration ==
    Done
    => /\ call.caching1 = call.caching
       /\ call.pooling1 = call.pooling0
       /\ call.metrics1 = call.metrics_on

\* C23, the failing case: the call took the pooled handle with pooling
\* enabled, the configuration was updated during its exchanges, and it gave
\* the handle back with pooling disabled: the handle was destroyed and is
\* still in the idle array.
C23_MixedConfiguration ==
    /\ Done
    /\ call.pooling0
    /\ ~call.pooling1
    /\ call.exchanges >= 1
    /\ call.handle \in Idle
    /\ cleaned[call.handle] = 1

\* A step that is a call of validation_cleanup.
IsCleanupStep == call'.path = "cleanup" /\ call'.n = ncalls + 1

\* C26: after validation_cleanup the idle array is empty and every handle
\* that was idle in it has been cleaned up by the call, the cache has no
\* entry, and the metrics buffer is empty (count 0).
C26_TeardownEmptiesEverything ==
    [][ IsCleanupStep
        => /\ connections' = <<>>
           /\ \A h \in Idle : cleaned'[h] > cleaned[h]
           /\ \A h \in Handles \ Idle : cleaned'[h] = cleaned[h]
           /\ cache_head' = <<>>
           /\ metrics_buffer' = <<>>
           /\ Len(metrics_buffer') = 0 ]_vars

\* C26, its case: a teardown has just emptied a layer that held an idle
\* handle (now destroyed).
C26_Witness ==
    /\ call.path = "cleanup"
    /\ connections = <<>>
    /\ cache_head = <<>>
    /\ metrics_buffer = <<>>
    /\ \E h \in Handles : cleaned[h] >= 1

\* C27: a call made after validation_cleanup works on resources that are
\* still valid: it does not read a configuration string that the teardown
\* freed, and the teardown itself left the process running.
C27_UsableAfterTeardown ==
    /\ call.path = "network" => call.base_url.mem # "freed"
    /\ call.path = "cleanup" => pc # "crashed"

\* C27, the failing case: after a teardown a call went to the network and
\* built its URL from the base URL that the teardown had freed.
C27_UsesFreedBaseUrl ==
    /\ Done
    /\ call.path = "network"
    /\ call.exchanges >= 1
    /\ call.base_url.mem = "freed"
    /\ config.base_url.mem = "freed"

----------------------------------------------------------------------------
(* Capacity of the cache (SpecCache) *)

\* C31: after any sequence of cache_response and get_cached_response calls
\* the cache list holds at most CACHE_MAX (100) entries.
C31_CacheAtMostHundred == Len(cache_head) <= CACHE_MAX

\* C31, its case: two stores in a row found the table full and left it full.
C31_Witness ==
    /\ op.type = "store"
    /\ op.enabled
    /\ op.before = CACHE_MAX
    /\ Len(cache_head) = CACHE_MAX
    /\ ncalls >= 2
    /\ lclock >= PreFill + 2

----------------------------------------------------------------------------
(* The cache under concurrent requests (SpecCacheRace) *)

\* Positions of the entries of the list whose key is k.
EntriesFor(k) == {i \in 1 .. Len(cache_head) : cache_head[i].key = k}

\* Requests t and u have both missed on the same key and both stored.
BothMissedAndStored(t, u) ==
    /\ t # u
    /\ thread[t].pc = "done" /\ ~thread[t].hit
    /\ thread[u].pc = "done" /\ ~thread[u].hit
    /\ thread[t].key = thread[u].key

\* C32: when two concurrent calls for the same (endpoint, payload) both miss
\* and both succeed, the cache ends with exactly one entry for that key, and
\* the list is well formed (no key twice, at most CACHE_MAX entries).
C32_ConcurrentStoresLeaveOneEntry ==
    \A t \in Threads, u \in Threads :
        BothMissedAndStored(t, u)
        => /\ Cardinality(EntriesFor(thread[t].key)) = 1
           /\ DistinctKeys(cache_head)
           /\ Len(cache_head) <= CACHE_MAX

\* C32, the failing case: both calls missed before either stored, and the
\* list now holds two entries for their key.
C32_TwoEntriesAfterConcurrentMisses ==
    \E t \in Threads, u \in Threads :
        /\ BothMissedAndStored(t, u)
        /\ Cardinality(EntriesFor(thread[t].key)) = 2
        /\ cache_head[1].key = thread[t].key
        /\ cache_head[2].key = thread[t].key

----------------------------------------------------------------------------
(* The metrics log under concurrent requests (SpecMetricsRace) *)

\* A step in which a request stores its metric.
IsMetricsWriteStep ==
    \E t \in Threads : thread[t].pc = "loaded" /\ thread'[t].pc = "done"

\* C33: appends to the metrics log are atomic: every metric that is stored
\* takes a slot of its own after those already in the log (the count grows
\* by one and nothing recorded before is overwritten), and the count never
\* exceeds MAX_METRICS (1000).
C33_AppendsAreAtomic ==
    [][ IsMetricsWriteStep
        => /\ Len(metrics_buffer') = Len(metrics_buffer) + 1
           /\ SubSeq(metrics_buffer', 1, Len(metrics_buffer)) = metrics_buffer
           /\ Len(metrics_buffer') <= MAX_METRICS ]_vars

\* C33, the failing case: two requests loaded the same index, both stored
\* their metric in that one slot, and the count advanced once for the two.
C33_TwoMetricsInOneSlot ==
    \E t \in Threads, u \in Threads :
        /\ t # u
        /\ thread[t].pc = "done" /\ thread[t].accepted
        /\ thread[u].pc = "done" /\ thread[u].accepted
        /\ thread[t].count = thread[u].count
        /\ Len(metrics_buffer) = thread[t].count + 1

----------------------------------------------------------------------------
(* Liveness of the handles the pool hands out (SpecPool) *)

\* C34: get_connection_from_pool never hands out a handle that
\* curl_easy_cleanup has already destroyed: the handle a request takes, also
\* after more rounds than the pool has slots, is a live one.
C34_AcquiredHandleIsLive ==
    [][ \A t \in Threads :
          (held[t] = NoHandle /\ held'[t] # NoHandle)
          => cleaned[held'[t]] = 0 ]_vars

\* C34, the failing case: eleven rounds of one handle filled the ten slots
\* with it and destroyed it on the eleventh release; the twelfth acquire has
\* handed it out again.
C34_DestroyedHandleHandedOut ==
    \E t \in Threads :
        /\ Borrowing = {t}
        /\ released = MAX_CONNECTIONS + 1
        /\ next_handle = 1
        /\ held[t] = 1
        /\ cleaned[1] = 1
        /\ Len(connections) = MAX_CONNECTIONS

----------------------------------------------------------------------------
(* Resources released by the layer (SpecTeardown) *)

\* C35: no resource is released twice: over validate, validation_set_config
\* and validation_cleanup calls, no handle is given to curl_easy_cleanup
\* more than once, and free() is called on a configuration string only if
\* the layer allocated it and has not freed it before.
C35_NothingReleasedTwice ==
    [][ /\ \A h \in Handles : cleaned'[h] <= 1
        /\ IsCleanupStep => ~CleanupUndefined(config)
        /\ cfgarg'.n = ncalls + 1 => ~SetConfigUndefined(config, cfgarg'.c)
      ]_vars

\* C35, the failing case: a second call took the pooled handle and put it
\* back, so that it sat in two slots; the teardown then destroyed it once
\* per slot, and called free() on the base URL, which is the string literal
\* of the initial configuration.
C35_HandleDestroyedTwice ==
    /\ call.path = "cleanup"
    /\ pc = "idle"
    /\ \E h \in Handles : cleaned[h] = 2
    /\ config.base_url.s = DefaultConfig.base_url.s
    /\ config.base_url.mem = "freed"

----------------------------------------------------------------------------
(* The round-robin index of the pool (SpecPoolTeardown) *)

\* C36: whenever the idle array is not empty, current_index is smaller than
\* the number of handles in it, so get_connection_from_pool reads a slot
\* that holds a handle; this across validate and validation_cleanup calls.
C36_IndexWithinIdleArray ==
    connections # <<>> => current_index < Len(connections)

\* C36, the failing case: the index had advanced to the second slot when
\* validation_cleanup emptied the array without resetting it; the next
\* request created a handle and returned it, and the index now points past
\* the one slot in use.
C36_IndexPastLastSlot ==
    /\ ncalls >= 1
    /\ Borrowing = {}
    /\ Len(connections) = 1
    /\ current_index = 1
    /\ pc = "idle"

----------------------------------------------------------------------------
(* The cache key (Spec) *)

\* C37: the cache key is injective on requests: different (endpoint,
\* payload) pairs have different keys, so the second call of a run takes the
\* cached path only if the first call was made for the same endpoint and the
\* same payload.
C37_CacheKeyInjective ==
    (call.n = 2 /\ call.path = "cache")
        => call.before = <<call.endpoint, call.payload>>

\* C37, the failing case: the first call stored the answer for ("a:b", "c");
\* the second call, for ("a", "b:c"), was answered from the cache.
C37_HitForAnotherRequest ==
    /\ call.n = 2
    /\ call.path = "cache"
    /\ call.ret = CURLE_OK
    /\ call.before = <<(<<"a", ":", "b">>), (<<"c">>)>>
    /\ call.endpoint = <<"a">>
    /\ call.payload = <<"b", ":", "c">>
    /\ call.key = <<"a", ":", "b", ":", "c">>

----------------------------------------------------------------------------
(* Width of the backoff interval (SpecBackoff) *)

\* C38: the backoff interval, an int of 32 bits doubled after every sleep,
\* is 1000 * 2^k after k sleeps and stays positive for every number of
\* sleeps that max_retries allows: the doubling never wraps around.
C38_BackoffNeverWraps ==
    call.path = "network"
    => /\ call.backoff_ms > 0
       /\ call.backoff_ms % Pow2(Len(call.sleeps)) = 0
       /\ call.backoff_ms \div Pow2(Len(call.sleeps)) = BACKOFF_START_MS
       /\ pc # "crashed"

\* C38, the failing case: with max_retries above 22 and exchanges that keep
\* failing, the 22nd doubling took the interval from 2097152000 ms past
\* INT_MAX; the call goes on with a negative interval.
C38_BackoffWrapped ==
    /\ pc = "loop"
    /\ call.max_retries >= 23
    /\ Len(call.sleeps) = 22
    /\ call.sleeps[22] = 2097152
    /\ call.backoff_ms < 0

----------------------------------------------------------------------------
(* The retry count of a metric (Spec) *)

\* The call has returned and its metric is the last one of the log.
RecordedItsMetric ==
    /\ Done
    /\ call.metrics1
    /\ Len(metrics_buffer) = call.metrics0 + 1

\* C39: the retry_count of the metric recorded for a request is the number
\* of retries the retry loop made for it (its exchanges after the first).
C39_MetricCountsRetries ==
    (RecordedItsMetric /\ call.exchanges >= 1)
    => metrics_buffer[Len(metrics_buffer)].retry_count = call.exchanges - 1

\* C39, the failing case: a call succeeded on its third exchange, after two
\* retries, and its metric says 0.
C39_MetricSaysZeroAfterRetries ==
    /\ RecordedItsMetric
    /\ call.exchanges = 3
    /\ call.retry_count = 2
    /\ call.ret = CURLE_OK
    /\ metrics_buffer[Len(metrics_buffer)].retry_count = 0

----------------------------------------------------------------------------
(* Termination of the retry loop (SpecBackoff) *)

\* C40: a call cannot stay in the retry loop for ever, whatever the
\* exchanges give and whatever max_retries is: while it is in the loop
\* retry_count is below max_retries, every exchange after which the loop
\* goes round again raises retry_count by one and leaves max_retries as it
\* is, and every other exchange leaves the loop; so a call makes at most
\* max_retries exchanges before it returns.
C40_LoopAdvancesToMaxRetries ==
    [][ /\ (pc = "loop" /\ pc' = "loop")
            => /\ call'.retry_count = call.retry_count + 1
               /\ call'.retry_count < call'.max_retries
               /\ call'.max_retries = call.max_retries
               /\ call'.n = call.n
        /\ pc' = "loop" => call'.retry_count < call'.max_retries
        /\ call'.path = "network" => call'.exchanges <= call'.max_retries
        /\ pc = "finish" => (pc' = "idle" /\ call'.n = call.n)
      ]_vars

\* C40, its case: with max_retries = 20 and exchanges that failed every
\* time, the call made its twenty exchanges and returned.
C40_Witness ==
    /\ Done
    /\ call.max_retries = 20
    /\ call.exchanges = 20
    /\ call.retry_count = 20
    /\ Len(call.sleeps) = 19
    /\ call.ret # CURLE_OK

====
